---- MODULE Spec2Model ----
(***************************************************************************)
(* JSONPath evaluation of package ajson (jsonpath.go).                     *)
(*                                                                         *)
(* Strings are sequences of one-character strings, so that the tokenizer's *)
(* byte cursor, strings.Split, strconv.Atoi and strconv.Itoa are computed  *)
(* as the code computes them.  A document is a tree of nodes 1..n given by *)
(* the parent, kind, key and value of each node; children are ordered by   *)
(* node number, which is the order of appearance in the document.          *)
(***************************************************************************)
EXTENDS Integers, Sequences, FiniteSets, TLC

\* ---------------------------------------------------------------- bounds
MaxNodes == 4      \* generated trees have at most this many nodes
MaxNav == 2        \* navigation segments in front of a path's last segment
TempCap == 24      \* length at which the slice loop's list stops growing

\* ------------------------------------------------------- byte constants
dollar == "$"
dot == "."
bracketL == "["
bracketR == "]"
quote == "'"

\* math.MaxInt64, represented by the largest integer TLC represents; every
\* index a slice loop reaches on the bounded documents is far below it.
MaxInt64 == 2147483647

\* ------------------------------------------------------- string helpers
Digits == <<"0", "1", "2", "3", "4", "5", "6", "7", "8", "9">>

IsDigit(c) == \E k \in 1..10 : Digits[k] = c

DigitVal(c) == (CHOOSE k \in 1..10 : Digits[k] = c) - 1

RECURSIVE DigitsVal(_)
DigitsVal(s) ==
  IF s = <<>> THEN 0
  ELSE 10 * DigitsVal(SubSeq(s, 1, Len(s) - 1)) + DigitVal(s[Len(s)])

\* strconv.Atoi: optional sign, then one or more decimal digits.
Atoi(s) ==
  LET signed == s # <<>> /\ s[1] \in {"+", "-"}
      body == IF signed THEN Tail(s) ELSE s
  IN IF body = <<>> \/ \E k \in 1..Len(body) : ~IsDigit(body[k])
     THEN [ok |-> FALSE, val |-> 0]
     ELSE [ok |-> TRUE,
           val |-> IF signed /\ s[1] = "-" THEN 0 - DigitsVal(body)
                   ELSE DigitsVal(body)]

RECURSIVE NatStr(_)
NatStr(n) ==
  IF n < 10 THEN <<Digits[n + 1]>>
  ELSE NatStr(n \div 10) \o <<Digits[(n % 10) + 1]>>

\* strconv.Itoa
Itoa(i) == IF i < 0 THEN <<"-">> \o NatStr(0 - i) ELSE NatStr(i)

\* strings.Contains for a one-byte separator
Contains(s, c) == \E k \in 1..Len(s) : s[k] = c

\* strings.HasPrefix
HasPrefix(s, p) == Len(s) >= Len(p) /\ SubSeq(s, 1, Len(p)) = p

\* strings.Split for a one-byte separator: one more field than separators.
RECURSIVE Split(_, _)
Split(s, c) ==
  IF ~Contains(s, c) THEN <<s>>
  ELSE LET k == CHOOSE j \in 1..Len(s) :
                  s[j] = c /\ \A m \in 1..(j - 1) : s[m] # c
       IN <<SubSeq(s, 1, k - 1)>> \o Split(SubSeq(s, k + 1, Len(s)), c)

RECURSIVE Flatten(_)
Flatten(ss) == IF ss = <<>> THEN <<>> ELSE Head(ss) \o Flatten(Tail(ss))

RECURSIVE SetToSeq(_)
SetToSeq(S) ==
  IF S = {} THEN <<>>
  ELSE LET m == CHOOSE x \in S : \A y \in S : x <= y
       IN <<m>> \o SetToSeq(S \ {m})

Range(s) == {s[k] : k \in 1..Len(s)}

\* ------------------------------------------------------------ node tree
Kids(d, n) == SetToSeq({c \in 1..d.n : d.parent[c] = n})

IsArray(d, n) == d.kind[n] = "array"

isContainer(d, n) == d.kind[n] \in {"object", "array"}

\* Node.inheritors: the children in natural order.
inheritors(d, n) == Kids(d, n)

Rank(d, c) == Cardinality({s \in 1..d.n : d.parent[s] = d.parent[c] /\ s < c})

\* The key under which a node is stored in its parent's children map.
ChildKey(d, c) ==
  IF IsArray(d, d.parent[c]) THEN Itoa(Rank(d, c)) ELSE d.key[c]

\* element.children[key]: the child node, or 0 when the key is absent.
children(d, n, key) ==
  LET hit == {c \in 1..d.n : d.parent[c] = n /\ ChildKey(d, c) = key}
  IN IF hit = {} THEN 0 ELSE CHOOSE c \in hit : TRUE

\* ------------------------------------------------------------ documents
NoKey == <<>>

\* {"a":[10,20,30,40,50]}
DocArray ==
  [valid |-> TRUE, n |-> 7,
   parent |-> <<0, 1, 2, 2, 2, 2, 2>>,
   kind |-> <<"object", "array", "number", "number", "number", "number", "number">>,
   key |-> <<NoKey, <<"a">>, NoKey, NoKey, NoKey, NoKey, NoKey>>,
   val |-> <<0, 0, 10, 20, 30, 40, 50>>]

\* {"a":{"x":1,"y":2,"z":3}}
DocObject ==
  [valid |-> TRUE, n |-> 5,
   parent |-> <<0, 1, 2, 2, 2>>,
   kind |-> <<"object", "object", "number", "number", "number">>,
   key |-> <<NoKey, <<"a">>, <<"x">>, <<"y">>, <<"z">>>>,
   val |-> <<0, 0, 1, 2, 3>>]

\* [[1,2],{"0":3}]
DocMixed ==
  [valid |-> TRUE, n |-> 6,
   parent |-> <<0, 1, 1, 2, 2, 3>>,
   kind |-> <<"array", "array", "object", "number", "number", "number">>,
   key |-> <<NoKey, NoKey, NoKey, NoKey, NoKey, <<"0">>>>,
   val |-> <<0, 0, 0, 1, 2, 3>>]

\* bytes that are not a JSON document
DocInvalid ==
  [valid |-> FALSE, n |-> 0, parent |-> <<>>, kind |-> <<>>, key |-> <<>>,
   val |-> <<>>]

FixedDocs == {DocArray, DocObject, DocMixed, DocInvalid}

\* The r-th member (from 0) of a generated object is stored under "a", "b1",
\* "b2", ...
KeyName(r) == IF r = 0 THEN <<"a">> ELSE <<"b">> \o Itoa(r)

GenDoc(n, pf, kf) ==
  [valid |-> TRUE, n |-> n, parent |-> pf, kind |-> kf,
   key |-> [c \in 1..n |->
              IF c = 1 THEN NoKey
              ELSE KeyName(Cardinality({s \in 1..n : pf[s] = pf[c] /\ s < c}))],
   val |-> [c \in 1..n |-> c]]

\* Every tree of at most MaxNodes nodes: node 1 is the root, a node's parent
\* is a container with a smaller number.
GenDocs ==
  UNION {
    {GenDoc(n, pf, kf) :
       <<pf, kf>> \in
         {x \in [1..n -> 0..(n - 1)] \X [1..n -> {"object", "array", "number"}] :
            /\ x[1][1] = 0
            /\ \A c \in 2..n :
                 x[1][c] >= 1 /\ x[1][c] < c /\ x[2][x[1][c]] # "number"}}
    : n \in 1..MaxNodes}

\* ---------------------------------------------------------------- paths
NavSegs ==
  { <<".">>,
    <<".", ".">>,
    <<".", "a">>,
    <<".", "*">>,
    <<"[", "'", "a", "'", "]">>,
    <<"[", "?", "(", "a", ")", "]">> }

LastSegs ==
  { <<>>,
    <<".">>,
    <<".", "a">>,
    <<".", "b">>,
    <<".", "*">>,
    <<".", "$">>,
    <<"x">>,
    <<"[">>,
    <<"[", "'", "a">>,
    <<"[", "'", "b", "'", "]">>,
    <<"[", "0", "]">>,
    <<"[", "-", "1", "]">>,
    <<"[", "x", ",", "y", "]">>,
    <<"[", "'", "x", "'", ",", "'", "y", "'", "]">>,
    <<"[", "'", "x", "'", ",", "'", "w", "'", "]">>,
    <<"[", "1", ":", "3", "]">>,
    <<"[", "1", ":", "]">>,
    <<"[", ":", "2", "]">>,
    <<"[", "0", ":", "4", ":", "2", "]">>,
    <<"[", "0", ":", "1", ":", "0", "]">>,
    <<"[", "2", ":", ":", "-", "1", "]">>,
    <<"[", "-", "1", ":", "]">>,
    <<"[", "a", ":", "1", "]">>,
    <<"[", "1", ":", "2", ":", "3", ":", "4", "]">>,
    <<"[", "?", "(", "a", ")", "]">>,
    <<"[", "?", "(", "a", ":", "b", ")", "]">> }

NavSeqs == UNION {[1..k -> NavSegs] : k \in 0..MaxNav}

Paths ==
  {pre \o Flatten(nav) \o last :
     pre \in {<<>>, <<"$">>}, nav \in NavSeqs, last \in LastSegs}

\* The paths run on the generated trees.
TreePaths ==
  { <<"$", ".", ".", "*">>,
    <<"$", ".", "*">>,
    <<"$", ".", ".", "[", "0", ":", "2", "]">>,
    <<".", ".", "*">> }

\* --------------------------------------------------------------- cursor
\* The cursor over the path's bytes; buf.index counts from 0.
Byte(data, i) == data[i + 1]

\* buffer.step: move to the next byte, or report the end of the input.
buf_step(data, idx) ==
  IF idx + 1 < Len(data) THEN [index |-> idx + 1, eof |-> FALSE]
  ELSE [index |-> idx, eof |-> TRUE]

\* buffer.skip: scan forward to the first byte s at or after the cursor.
buf_skip(data, idx, s) ==
  LET hit == {j \in idx..(Len(data) - 1) : Byte(data, j) = s}
  IN IF hit = {} THEN [index |-> Len(data), eof |-> TRUE]
     ELSE [index |-> CHOOSE j \in hit : \A m \in hit : j <= m, eof |-> FALSE]

\* buffer.skipAny: scan forward to the first byte of the set S.
buf_skipAny(data, idx, S) ==
  LET hit == {j \in idx..(Len(data) - 1) : Byte(data, j) \in S}
  IN IF hit = {} THEN [index |-> Len(data), eof |-> TRUE]
     ELSE [index |-> CHOOSE j \in hit : \A m \in hit : j <= m, eof |-> FALSE]

\* buffer.string: from the opening quote, move to the closing one.
buf_string(data, idx, search) ==
  LET s == buf_step(data, idx)
  IN IF s.eof THEN s ELSE buf_skip(data, s.index, search)

childEnd == {dot, bracketL}

\* ------------------------------------------------------------ tokenizer
\* One iteration of ParseJSONPath's loop up to its trailing buf.step(): the
\* cursor, the commands and the error it leaves.

\* case b == dollar
caseDollar(data, idx, res) ==
  [index |-> idx, result |-> Append(res, <<"$">>), err |-> "none"]

\* caseDot with the cursor left behind the second dot of "..".
caseDotPastBoth(data, idx, res) ==
  LET start == idx
      n == buf_step(data, idx)
  IN IF n.eof THEN [index |-> idx, result |-> res, err |-> "none"]
     ELSE IF Byte(data, n.index) = dot
     THEN [index |-> n.index, result |-> Append(res, <<".", ".">>), err |-> "none"]
     ELSE LET k == buf_skipAny(data, n.index, childEnd)
              stop == IF k.eof THEN Len(data) ELSE k.index
              at == IF k.eof THEN k.index ELSE k.index - 1
          IN [index |-> at,
              result |-> IF start + 1 < stop
                         THEN Append(res, SubSeq(data, start + 2, stop))
                         ELSE res,
              err |-> "none"]

\* case b == dot
caseDot(data, idx, res) ==
  LET start == idx
      n == buf_step(data, idx)
  IN IF n.eof THEN [index |-> idx, result |-> res, err |-> "none"]
     ELSE IF Byte(data, n.index) = dot
     THEN [index |-> n.index - 1, result |-> Append(res, <<".", ".">>),
           err |-> "none"]
     ELSE LET k == buf_skipAny(data, n.index, childEnd)
              stop == IF k.eof THEN Len(data) ELSE k.index
              at == IF k.eof THEN k.index ELSE k.index - 1
          IN [index |-> at,
              result |-> IF start + 1 < stop
                         THEN Append(res, SubSeq(data, start + 2, stop))
                         ELSE res,
              err |-> "none"]

\* caseBracket with the opening quote kept in the command.
caseBracketKeepQuote(data, idx, res) ==
  LET n == buf_step(data, idx)
      fail(e) == [index |-> idx, result |-> <<>>, err |-> e]
  IN IF n.eof THEN fail("errorEOF")
     ELSE IF Byte(data, n.index) = quote
     THEN LET q == buf_string(data, n.index, quote)
              r == buf_step(data, q.index)
          IN IF q.eof THEN fail("errorEOF")
             ELSE IF r.eof THEN fail("errorEOF")
             ELSE IF Byte(data, r.index) # bracketR THEN fail("errorSymbol")
             ELSE [index |-> r.index,
                   result |-> Append(res, SubSeq(data, n.index + 1, q.index)),
                   err |-> "none"]
     ELSE LET k == buf_skip(data, n.index, bracketR)
          IN IF k.eof THEN fail("errorEOF")
             ELSE [index |-> k.index,
                   result |-> Append(res, SubSeq(data, n.index + 1, k.index)),
                   err |-> "none"]

\* case b == bracketL
caseBracket(data, idx, res) ==
  LET n == buf_step(data, idx)
      fail(e) == [index |-> idx, result |-> <<>>, err |-> e]
  IN IF n.eof THEN fail("errorEOF")
     ELSE IF Byte(data, n.index) = quote
     THEN LET q == buf_string(data, n.index, quote)
              r == buf_step(data, q.index)
          IN IF q.eof THEN fail("errorEOF")
             ELSE IF r.eof THEN fail("errorEOF")
             ELSE IF Byte(data, r.index) # bracketR THEN fail("errorSymbol")
             ELSE [index |-> r.index,
                   result |-> Append(res, SubSeq(data, n.index + 2, q.index)),
                   err |-> "none"]
     ELSE LET k == buf_skip(data, n.index, bracketR)
          IN IF k.eof THEN fail("errorEOF")
             ELSE [index |-> k.index,
                   result |-> Append(res, SubSeq(data, n.index + 1, k.index)),
                   err |-> "none"]

\* -------------------------------------------------------------- evaluator
\* The pre-order traversal of a node's container descendants: each container
\* child in natural order, directly followed by its own traversal.
RECURSIVE PreOrder(_, _)
PreOrder(d, node) ==
  LET cs == IF isContainer(d, node)
            THEN SelectSeq(inheritors(d, node), LAMBDA e : isContainer(d, e))
            ELSE <<>>
  IN Flatten([k \in 1..Len(cs) |-> <<cs[k]>> \o PreOrder(d, cs[k])])

RECURSIVE recursiveChildren(_, _)
recursiveChildren(d, node) ==
  LET result == IF isContainer(d, node)
                THEN SelectSeq(inheritors(d, node), LAMBDA e : isContainer(d, e))
                ELSE <<>>
  IN result \o Flatten([k \in 1..Len(result) |-> recursiveChildren(d, result[k])])

\* The case of JSONPath's switch that a command takes.
CmdCase(cmd) ==
  IF cmd = <<"$">> THEN "root"
  ELSE IF cmd = <<".", ".">> THEN "descent"
  ELSE IF cmd = <<"*">> THEN "wildcard"
  ELSE IF Contains(cmd, ":") THEN "slice"
  ELSE IF HasPrefix(cmd, <<"?", "(">>) THEN "filter"
  ELSE "keys"

\* The from, to and step of a slice command, or the request error.
SliceFields(cmd) ==
  LET keys == Split(cmd, ":")
      f == Atoi(keys[1])
      t == Atoi(keys[2])
      s == Atoi(keys[3])
      bad == [ok |-> FALSE, from |-> 0, to |-> 0, step |-> 0]
  IN IF Len(keys) > 3 THEN bad
     ELSE IF keys[1] # <<>> /\ ~f.ok THEN bad
     ELSE IF keys[2] # <<>> /\ ~t.ok THEN bad
     ELSE IF Len(keys) = 3 /\ keys[3] # <<>> /\ ~s.ok THEN bad
     ELSE [ok |-> TRUE,
           from |-> IF keys[1] = <<>> THEN 0 ELSE f.val,
           to |-> IF keys[2] = <<>> THEN MaxInt64 ELSE t.val,
           step |-> IF Len(keys) = 3 /\ keys[3] # <<>> THEN s.val ELSE 1]

\* The wildcard's list: the children of every node of the result.
WildcardOf(d, res) == Flatten([k \in 1..Len(res) |-> inheritors(d, res[k])])

\* The descent's list: the descendants of every node of the result.
DescentOf(d, res) ==
  Flatten([k \in 1..Len(res) |-> recursiveChildren(d, res[k])])

\* The key case's list for one key: the child under it of every container.
KeyOf(d, res, key) ==
  LET found == SelectSeq(res, LAMBDA e : isContainer(d, e) /\ children(d, e, key) # 0)
  IN [k \in 1..Len(found) |-> children(d, found[k], key)]

\* The key and union case's list: key by key, in the order written.
KeysOf(d, res, cmd) ==
  LET keys == Split(cmd, ",")
  IN Flatten([k \in 1..Len(keys) |-> KeyOf(d, res, keys[k])])

\* ----------------------------------------------------------------- state
VARIABLES
  doc,            \* the document handed to JSONPath as data
  path,           \* the path handed to JSONPath
  pc,             \* where the call is: parse, unmarshal, fold, slice, inner, done
  index,          \* buf.index of ParseJSONPath
  commands,       \* ParseJSONPath's result, then JSONPath's commands
  err,            \* the error the call returns, "none" while there is none
  result,         \* JSONPath's result
  temporary,      \* JSONPath's temporary
  grown,          \* parity of the appends to temporary beyond TempCap
  ci,             \* position in commands of the command to run next (from 1)
  from, to, step, \* the fields of the slice command being run
  ei,             \* position in result of the slice's outer loop (from 1)
  si,             \* the slice's inner loop variable i
  unmarshalCalls, \* how often Unmarshal was called
  prev,           \* the result before the command completed last
  last            \* position of the command completed last, 0 before the first

vars ==
  <<doc, path, pc, index, commands, err, result, temporary, grown, ci, from, to,
    step, ei, si, unmarshalCalls, prev, last>>

foldVars == <<result, temporary, grown, ci, from, to, step, ei, si, prev, last>>

Start ==
  /\ pc = "parse"
  /\ index = 0
  /\ commands = <<>>
  /\ err = "none"
  /\ result = <<>>
  /\ temporary = <<>>
  /\ grown = 0
  /\ ci = 1
  /\ from = 0 /\ to = 0 /\ step = 0
  /\ ei = 0 /\ si = 0
  /\ unmarshalCalls = 0
  /\ prev = <<>>
  /\ last = 0

Init ==
  /\ \/ doc \in FixedDocs /\ path \in Paths
     \/ doc \in GenDocs /\ path \in TreePaths
  /\ Start

\* EndIteration with the error kept but the return forgotten.
EndIterationKeepGoing(r) ==
  /\ unmarshalCalls' = unmarshalCalls
  /\ UNCHANGED <<doc, path, foldVars>>
  /\ LET s == buf_step(path, r.index)
     IN /\ pc' = IF s.eof \/ r.err # "none" THEN "unmarshal" ELSE "parse"
        /\ err' = r.err
        /\ commands' = r.result
        /\ index' = s.index

\* The end of an iteration of ParseJSONPath's loop: return the error, or
\* buf.step() and go round again, or return the commands at the end of input.
EndIteration(r) ==
  /\ unmarshalCalls' = unmarshalCalls
  /\ UNCHANGED <<doc, path, foldVars>>
  /\ IF r.err # "none"
     THEN /\ pc' = "done"
          /\ err' = r.err
          /\ commands' = <<>>
          /\ index' = r.index
     ELSE LET s == buf_step(path, r.index)
          IN /\ pc' = IF s.eof THEN "unmarshal" ELSE "parse"
             /\ err' = "none"
             /\ commands' = r.result
             /\ index' = s.index

AtByte(B) == pc = "parse" /\ index < Len(path) /\ Byte(path, index) \in B

TokDollar == AtByte({dollar}) /\ EndIteration(caseDollar(path, index, commands))

TokDot == AtByte({dot}) /\ EndIteration(caseDot(path, index, commands))

TokBracket == AtByte({bracketL}) /\ EndIteration(caseBracket(path, index, commands))

\* default: any other byte is an unexpected symbol
TokSymbol ==
  /\ pc = "parse" /\ index < Len(path)
  /\ Byte(path, index) \notin {dollar, dot, bracketL}
  /\ EndIteration([index |-> index, result |-> <<>>, err |-> "errorSymbol"])

\* buf.current() fails at the top of the loop: the path is empty
TokEOF ==
  /\ pc = "parse" /\ index >= Len(path)
  /\ pc' = "done"
  /\ err' = "EOF"
  /\ commands' = <<>>
  /\ UNCHANGED <<doc, path, index, foldVars, unmarshalCalls>>

\* root, err := Unmarshal(data); the root is node 1
Unmarshal ==
  /\ pc = "unmarshal"
  /\ unmarshalCalls' = unmarshalCalls + 1
  /\ IF doc.valid THEN pc' = "fold" /\ err' = "none"
     ELSE pc' = "done" /\ err' = "document"
  /\ UNCHANGED <<doc, path, index, commands, foldVars>>

AtCmd(c) == pc = "fold" /\ ci <= Len(commands) /\ CmdCase(commands[ci]) = c

\* A command completes with the new result.
Complete(new) ==
  /\ result' = new
  /\ prev' = result
  /\ last' = ci
  /\ ci' = ci + 1
  /\ pc' = "fold"
  /\ UNCHANGED <<doc, path, index, commands, err, unmarshalCalls>>

\* EvalRoot without the test of the command's position.
EvalRootAnywhere ==
  /\ AtCmd("root")
  /\ Complete(Append(result, 1))
  /\ UNCHANGED <<temporary, grown, from, to, step, ei, si>>

EvalRoot ==
  /\ AtCmd("root")
  /\ Complete(IF ci = 1 THEN Append(result, 1) ELSE result)
  /\ UNCHANGED <<temporary, grown, from, to, step, ei, si>>

\* EvalDescent replacing the result as the other cases do.
EvalDescentReplace ==
  /\ AtCmd("descent")
  /\ temporary' = DescentOf(doc, result)
  /\ Complete(DescentOf(doc, result))
  /\ UNCHANGED <<grown, from, to, step, ei, si>>

EvalDescent ==
  /\ AtCmd("descent")
  /\ temporary' = DescentOf(doc, result)
  /\ Complete(result \o DescentOf(doc, result))
  /\ UNCHANGED <<grown, from, to, step, ei, si>>

EvalWildcard ==
  /\ AtCmd("wildcard")
  /\ temporary' = WildcardOf(doc, result)
  /\ Complete(WildcardOf(doc, result))
  /\ UNCHANGED <<grown, from, to, step, ei, si>>

\* The slice case up to its loops: the fields, or the request error.
EvalSlice ==
  /\ AtCmd("slice")
  /\ LET f == SliceFields(commands[ci])
     IN IF f.ok
        THEN /\ from' = f.from /\ to' = f.to /\ step' = f.step
             /\ temporary' = <<>> /\ grown' = 0
             /\ ei' = 1
             /\ pc' = "slice"
             /\ UNCHANGED <<result, err>>
        ELSE /\ pc' = "done"
             /\ err' = "request"
             /\ result' = <<>>
             /\ UNCHANGED <<from, to, step, temporary, grown, ei>>
  /\ UNCHANGED <<doc, path, index, commands, ci, si, unmarshalCalls, prev, last>>

\* for _, element := range result: the next element, or the end of the case.
SliceElement ==
  /\ pc = "slice"
  /\ IF ei > Len(result)
     THEN /\ Complete(temporary)
          /\ UNCHANGED <<temporary, grown, from, to, step, ei, si>>
     ELSE /\ IF IsArray(doc, result[ei])
             THEN si' = from /\ pc' = "inner" /\ ei' = ei
             ELSE si' = si /\ pc' = "slice" /\ ei' = ei + 1
          /\ UNCHANGED <<doc, path, index, commands, err, unmarshalCalls, result,
                         temporary, grown, ci, from, to, step, prev, last>>

\* SliceInner with the loop condition i <= to.
SliceInnerInclusive ==
  /\ pc = "inner"
  /\ IF si <= to /\ children(doc, result[ei], Itoa(si)) # 0
     THEN /\ IF Len(temporary) < TempCap
             THEN /\ temporary' = Append(temporary, children(doc, result[ei], Itoa(si)))
                  /\ grown' = grown
             ELSE /\ temporary' = temporary
                  /\ grown' = 1 - grown
          /\ si' = si + step
          /\ UNCHANGED <<pc, ei>>
     ELSE /\ pc' = "slice"
          /\ ei' = ei + 1
          /\ UNCHANGED <<temporary, grown, si>>
  /\ UNCHANGED <<doc, path, index, commands, err, unmarshalCalls, result, ci, from,
                 to, step, prev, last>>

\* for i := from; i < to; i += step: one test of the condition and one body.
SliceInner ==
  /\ pc = "inner"
  /\ IF si < to /\ children(doc, result[ei], Itoa(si)) # 0
     THEN /\ IF Len(temporary) < TempCap
             THEN /\ temporary' = Append(temporary, children(doc, result[ei], Itoa(si)))
                  /\ grown' = grown
             ELSE /\ temporary' = temporary
                  /\ grown' = 1 - grown
          /\ si' = si + step
          /\ UNCHANGED <<pc, ei>>
     ELSE /\ pc' = "slice"
          /\ ei' = ei + 1
          /\ UNCHANGED <<temporary, grown, si>>
  /\ UNCHANGED <<doc, path, index, commands, err, unmarshalCalls, result, ci, from,
                 to, step, prev, last>>

EvalFilter ==
  /\ AtCmd("filter")
  /\ Complete(result)
  /\ UNCHANGED <<temporary, grown, from, to, step, ei, si>>

EvalKeys ==
  /\ AtCmd("keys")
  /\ temporary' = KeysOf(doc, result, commands[ci])
  /\ Complete(KeysOf(doc, result, commands[ci]))
  /\ UNCHANGED <<grown, from, to, step, ei, si>>

\* the commands are exhausted: return result
Return ==
  /\ pc = "fold" /\ ci > Len(commands)
  /\ pc' = "done"
  /\ UNCHANGED <<doc, path, index, commands, err, unmarshalCalls, foldVars>>

Next ==
  \/ TokDollar
  \/ TokDot
  \/ TokBracket
  \/ TokSymbol
  \/ TokEOF
  \/ Unmarshal
  \/ EvalRoot
  \/ EvalDescent
  \/ EvalWildcard
  \/ EvalSlice
  \/ SliceElement
  \/ SliceInner
  \/ EvalFilter
  \/ EvalKeys
  \/ Return

Spec == Init /\ [][Next]_vars

\* The call runs on the calling thread without suspension: a step that can
\* be taken is taken.
FairPaths ==
  { <<>>,
    <<"x">>,
    <<"$", ".", "a", "[">>,
    <<"$", ".", ".", "*">>,
    <<"$", "[", "?", "(", "a", ")", "]", ".", "a">>,
    <<"$", ".", "a", "[", "1", ":", "3", "]">>,
    <<"$", ".", "a", "[", ":", "]">>,
    <<"$", ".", "a", "[", "0", ":", "4", ":", "2", "]">>,
    <<"$", ".", "a", "[", "2", ":", ":", "-", "1", "]">>,
    <<"$", ".", "a", "[", "-", "1", ":", "]">>,
    <<"$", ".", "a", "[", "0", ":", "1", ":", "0", "]">>,
    <<"$", "[", "0", "]", "[", "1", ":", ":", "0", "]">>,
    <<"$", ".", "a", "[", "1", ":", "2", ":", "3", ":", "4", "]">> }

FairInit == doc \in {DocArray, DocMixed, DocInvalid} /\ path \in FairPaths /\ Start

FairSpec == FairInit /\ [][Next]_vars /\ WF_vars(Next)

\* ---------------------------------------------------------------- claims
ParseErrors == {"EOF", "errorEOF", "errorSymbol"}

\* The tokenizer has returned its commands without error.
Tokenized == pc \notin {"parse"} /\ err \notin ParseErrors

\* The values of the scalars of a result.
Values(res) == [k \in 1..Len(res) |-> doc.val[res[k]]]

\* The command completed last took case c and the call has not failed since.
After(c) ==
  /\ last >= 1 /\ err = "none" /\ pc \in {"fold", "slice", "inner", "done"}
  /\ CmdCase(commands[last]) = c

PathFourFields ==
  <<"$", ".", "a", "[", "1", ":", "2", ":", "3", ":", "4", "]">>
PathOpenBracket == <<"$", ".", "a", "[">>
PathUnionXY ==
  <<"$", ".", "a", "[", "'", "x", "'", ",", "'", "y", "'", "]">>
PathUnionXW ==
  <<"$", ".", "a", "[", "'", "x", "'", ",", "'", "w", "'", "]">>
PathDescentA == <<"$", ".", ".", "a">>
PathQuotedAB == <<"$", "[", "'", "a", "'", "]", "[", "'", "b", "'", "]">>
PathDotAB == <<"$", ".", "a", ".", "b">>
PathThreeDotsA == <<"$", ".", ".", ".", "a">>
PathSlice13 == <<"$", ".", "a", "[", "1", ":", "3", "]">>
PathSlice1 == <<"$", ".", "a", "[", "1", ":", "]">>
PathSlice2 == <<"$", ".", "a", "[", ":", "2", "]">>
PathDescentAll == <<"$", ".", ".", "*">>
PathChildren == <<"$", ".", "*">>

CmdRoot == <<"$">>
CmdDescent == <<".", ".">>

\* C1 as stated: with the four-field slice path or the unterminated bracket
\* path, Unmarshal is never called and the call ends in a path or request
\* error with no nodes.
C1_Original ==
  path \in {PathFourFields, PathOpenBracket} =>
    /\ unmarshalCalls = 0
    /\ pc = "done" => err \in ParseErrors \cup {"request"} /\ result = <<>>

\* C1 amended: a path on which the tokenizer fails never reaches Unmarshal,
\* and the unterminated bracket path is one: it ends in a parse error with no
\* nodes. The four-field slice path tokenizes, so Unmarshal is called once,
\* and the call ends with no nodes in the request error on a valid document
\* and in the document's error on an invalid one.
C1_Amended ==
  /\ err \in ParseErrors => unmarshalCalls = 0 /\ pc = "done" /\ result = <<>>
  /\ path = PathOpenBracket =>
       /\ unmarshalCalls = 0
       /\ pc = "done" => err = "errorEOF" /\ result = <<>>
  /\ path = PathFourFields /\ pc = "done" =>
       /\ unmarshalCalls = 1
       /\ result = <<>>
       /\ err = IF doc.valid THEN "request" ELSE "document"

C1_Witness ==
  path = PathOpenBracket /\ pc = "done" /\ ~doc.valid /\ err = "errorEOF"

\* C2: every call of JSONPath eventually returns.
C2_Terminates == <>(pc = "done")

\* C3: on {"a":{"x":1,"y":2,"z":3}} the path $.a['x','y'] returns [1,2] and
\* $.a['x','w'] returns [1], both without error.
C3_QuotedUnion ==
  doc = DocObject /\ pc = "done" =>
    /\ path = PathUnionXY => err = "none" /\ Values(result) = <<1, 2>>
    /\ path = PathUnionXW => err = "none" /\ Values(result) = <<1>>

\* C4: $..a tokenizes to $, .., a; $['a']['b'] and $.a.b both tokenize to
\* $, a, b; each without error.
C4_Tokens ==
  pc # "parse" =>
    /\ path = PathDescentA =>
         err \notin ParseErrors /\ commands = <<CmdRoot, CmdDescent, <<"a">>>>
    /\ path = PathQuotedAB =>
         err \notin ParseErrors /\ commands = <<CmdRoot, <<"a">>, <<"b">>>>
    /\ path = PathDotAB =>
         err \notin ParseErrors /\ commands = <<CmdRoot, <<"a">>, <<"b">>>>

C4_Witness ==
  path = PathQuotedAB /\ pc = "unmarshal" /\ commands = <<CmdRoot, <<"a">>, <<"b">>>>

\* The children of array e that the slice in from, to, step selects: those
\* at the indices from, from+step, ... below both to and the array's length.
ExpectedSlice(e) ==
  IF ~IsArray(doc, e) THEN <<>>
  ELSE LET kids == Kids(doc, e)
           idxs == SetToSeq({x \in 0..(Len(kids) - 1) :
                               x >= from /\ x < to /\ (x - from) % step = 0})
       IN [k \in 1..Len(idxs) |-> kids[idxs[k] + 1]]

\* C5: a completed slice command with from >= 0 and step >= 1 has replaced
\* the result by the selected children of each array of the previous result,
\* in order; an empty from is 0, an empty to is unbounded, an empty or missing
\* step is 1; on {"a":[10,20,30,40,50]}, $.a[1:3] gives [20,30], $.a[1:]
\* gives [20,30,40,50] and $.a[:2] gives [10,20].
C5_Slice ==
  /\ After("slice") /\ pc \in {"fold", "done"} =>
       LET keys == Split(commands[last], ":")
       IN /\ keys[1] = <<>> => from = 0
          /\ keys[2] = <<>> => to = MaxInt64
          /\ Len(keys) = 2 \/ keys[Len(keys)] = <<>> => step = 1
          /\ from >= 0 /\ step >= 1 =>
               result = Flatten([k \in 1..Len(prev) |-> ExpectedSlice(prev[k])])
  /\ doc = DocArray /\ pc = "done" =>
       /\ path = PathSlice13 => err = "none" /\ Values(result) = <<20, 30>>
       /\ path = PathSlice1 => err = "none" /\ Values(result) = <<20, 30, 40, 50>>
       /\ path = PathSlice2 => err = "none" /\ Values(result) = <<10, 20>>

C5_Witness ==
  /\ doc = DocArray /\ pc = "done" /\ After("slice")
  /\ from = 0 /\ to = 4 /\ step = 2
  /\ Values(result) = <<10, 30>>

RECURSIVE Ancestors(_, _)
Ancestors(d, c) ==
  IF d.parent[c] = 0 THEN {} ELSE {d.parent[c]} \cup Ancestors(d, d.parent[c])

ContainerDescendants(d, n) ==
  {c \in 1..d.n : isContainer(d, c) /\ n \in Ancestors(d, c)}

ContainerKids(d, n) == SelectSeq(Kids(d, n), LAMBDA e : isContainer(d, e))

\* C6 as stated: the descendant list of every node is the pre-order traversal
\* of its container descendants.
C6_Original ==
  After("descent") =>
    \A n \in 1..doc.n : recursiveChildren(doc, n) = PreOrder(doc, n)

\* C6 amended: the descendant list of every node holds each container
\* descendant exactly once and no scalar; it starts with the node's container
\* children in natural order, and every deeper container comes after its
\* parent (so after its parent's later siblings too: not in pre-order).
C6_Amended ==
  After("descent") =>
    \A n \in 1..doc.n :
      LET rc == recursiveChildren(doc, n)
          cs == ContainerKids(doc, n)
      IN /\ Range(rc) = ContainerDescendants(doc, n)
         /\ Len(rc) = Cardinality(ContainerDescendants(doc, n))
         /\ \A k \in 1..Len(rc) : isContainer(doc, rc[k])
         /\ SubSeq(rc, 1, Len(cs)) = cs
         /\ \A a, b \in 1..Len(rc) : doc.parent[rc[b]] = rc[a] => a < b

C6_Witness ==
  /\ After("descent") /\ prev = <<1>>
  /\ doc.n = 4 /\ doc.parent = <<0, 1, 1, 2>>
  /\ result = <<1, 2, 3, 4>>

IsPrefix(p, q) == Len(p) <= Len(q) /\ SubSeq(q, 1, Len(p)) = p

\* Every entry of the result is a child of an entry of the previous result.
ChildrenOnly ==
  \A k \in 1..Len(result) : \E j \in 1..Len(prev) : doc.parent[result[k]] = prev[j]

Replaced == After("wildcard") \/ After("slice") \/ After("keys")

\* C7 as stated: a descent keeps the previous result as a prefix, the other
\* cases leave only children of the previous result, and $..* differs from
\* $.* on every tree whose root has a container child.
C7_Original ==
  /\ After("descent") => IsPrefix(prev, result)
  /\ Replaced => ChildrenOnly
  /\ pc = "done" /\ doc.valid =>
       /\ path = PathChildren => result = inheritors(doc, 1)
       /\ path = PathDescentAll
            /\ (\E c \in 1..doc.n : doc.parent[c] = 1 /\ isContainer(doc, c)) =>
              result # inheritors(doc, 1)

\* C7 amended: as stated, but $..* differs from $.* exactly on the trees
\* where some container below the root has a child, that is, where the root
\* has a grandchild; where every container child is empty the two agree.
C7_Amended ==
  /\ After("descent") => IsPrefix(prev, result)
  /\ Replaced => ChildrenOnly
  /\ pc = "done" /\ doc.valid =>
       /\ path = PathChildren => result = inheritors(doc, 1)
       /\ path = PathDescentAll =>
            (result # inheritors(doc, 1)) <=> (\E c \in 1..doc.n : doc.parent[c] > 1)

C7_Witness ==
  /\ pc = "done" /\ path = PathDescentAll /\ doc.valid
  /\ \E c \in 1..doc.n : doc.parent[c] > 1
  /\ IsPrefix(inheritors(doc, 1), result)
  /\ Len(result) > Len(inheritors(doc, 1))

IsFilter(cmd) == HasPrefix(cmd, <<"?", "(">>)

\* C8: a command that begins with ?( leaves the result as it was and never
\* makes the call fail.
C8_FilterNoOp ==
  /\ last >= 1 /\ err = "none" /\ IsFilter(commands[last]) => result = prev
  /\ Tokenized /\ (pc \in {"slice", "inner"} \/ err = "request") =>
       ~IsFilter(commands[ci])

DotDot ==
  /\ pc = "parse" /\ index + 1 < Len(path)
  /\ Byte(path, index) = dot /\ Byte(path, index + 1) = dot

\* C9 as stated: at a dot followed by a dot the tokenizer emits one descent
\* command and moves the cursor past both dots, and $...a tokenizes to
\* $, .., a.
C9_Original ==
  [][/\ DotDot =>
          /\ commands' = Append(commands, CmdDescent)
          /\ pc' = "parse" => index' = index + 2
          /\ index + 2 >= Len(path) => pc' = "unmarshal"
     /\ path = PathThreeDotsA /\ pc' # "parse" =>
          commands' = <<CmdRoot, CmdDescent, <<"a">>>>]_vars

\* C9 amended: at a dot followed by a dot the tokenizer emits one descent
\* command and moves the cursor onto the second dot, which is dispatched
\* next as the start of a segment; $...a tokenizes to $, .., .., a.
C9_Amended ==
  [][/\ DotDot =>
          /\ commands' = Append(commands, CmdDescent)
          /\ pc' = "parse" /\ index' = index + 1
     /\ path = PathThreeDotsA /\ pc' # "parse" =>
          commands' = <<CmdRoot, CmdDescent, CmdDescent, <<"a">>>>]_vars

C9_Witness ==
  /\ path = PathThreeDotsA /\ pc = "unmarshal"
  /\ commands = <<CmdRoot, CmdDescent, CmdDescent, <<"a">>>>

\* C10: on a valid document, when the tokenized commands do not begin with
\* the root command the result is empty at every step, and the call fails
\* only in the slice's request error.
C10_EmptyWithoutRoot ==
  doc.valid /\ Tokenized /\ (commands = <<>> \/ commands[1] # CmdRoot) =>
    result = <<>> /\ temporary = <<>> /\ err \in {"none", "request"}

C10_Witness ==
  /\ pc = "done" /\ err = "none" /\ doc.valid
  /\ Len(commands) = 2 /\ commands[1] = <<"a">> /\ commands[2] = CmdRoot
  /\ last = 2

====
